---- MODULE Spec2Model ----
(***************************************************************************)
(* Model of ULib's ORM binding layer (include/ulib/orm/orm.h):             *)
(*   - UOrmTypeHandler_Base and the UOrmTypeHandler<T> specializations     *)
(*     (the type adapters),                                                *)
(*   - UOrmStatement::use / into (the fixed-arity binding helpers) and the *)
(*     template bindParam / bindResult entry points,                       *)
(*   - the statement primitives and the driver they forward to (declared   *)
(*     in orm.h, implemented outside it), against a recording stub driver. *)
(***************************************************************************)
EXTENDS Integers, Sequences, FiniteSets, TLC

\* ------------------------------------------------------------------------
\* Bounds of the model
\* ------------------------------------------------------------------------

\* number of distinct values a caller variable may hold before it is bound
MaxVal == 2
\* longest vector handed to a sequence adapter
MaxVec == 2
\* number of different starting points of the type cycle used for long argument lists
MaxOffset == 2
\* largest number of rows in the stub driver's result set
MaxRows == 2
\* nextRow() calls made after the result set is exhausted
MaxExtra == 2
\* reset() calls made on one statement
MaxResets == 2
\* prepared executions queued in pipeline mode
MaxQueued == 3
\* number of '?' placeholders in the query the statements are prepared from
Placeholders == 2

\* ------------------------------------------------------------------------
\* Program constants
\* ------------------------------------------------------------------------

\* largest arity of the fixed-arity use(...) / into(...) helpers
MaxArity == 20

\* value of a caller variable that no row has been fetched into
NoVal == 0

\* ------------------------------------------------------------------------
\* Adapter types: one per UOrmTypeHandler specialization
\* ------------------------------------------------------------------------

AdapterTypes ==
  << "null", "bool", "char", "unsigned char", "short", "unsigned short",
     "int", "unsigned int", "long", "unsigned long", "long long",
     "unsigned long long", "float", "double", "long double", "const char*",
     "UStringRep", "UString", "istream", "struct tm" >>

ScalarTypes == { AdapterTypes[i] : i \in 1..Len(AdapterTypes) }

\* adapters whose bindParam body is stmt->bindParam(*(T*)pval)
ParamDerefTypes == ScalarTypes \ {"null", "const char*"}

\* adapters whose bindResult body is stmt->bindResult(*(T*)pval)
ResultPrimitiveTypes ==
  { "bool", "char", "unsigned char", "short", "unsigned short", "int",
    "unsigned int", "long", "unsigned long", "long long",
    "unsigned long long", "float", "double", "long double", "UString" }

\* adapters whose bindResult body is empty
ResultNoopTypes == { "null", "const char*", "istream", "struct tm" }

\* adapters whose bindResult body is U_ERROR(...)
ResultErrorTypes == { "UStringRep" }

\* element types of the vectors handed to the sequence adapter
ElemTypes == ScalarTypes \ {"null"}

\* ------------------------------------------------------------------------
\* Caller arguments
\* ------------------------------------------------------------------------

\* a scalar variable of type T holding v
ScalarArg(T, v) == [type |-> T, elem |-> "", vals |-> <<v>>, nullptr |-> FALSE]

\* a const char* variable that holds the null pointer
NullCStr == [type |-> "const char*", elem |-> "", vals |-> <<NoVal>>, nullptr |-> TRUE]

\* a UVector<E*> whose elements hold items[1], items[2], ...
VecArg(E, items) == [type |-> "UVector", elem |-> E, vals |-> items, nullptr |-> FALSE]

\* a UVector<UString> whose elements hold items[1], items[2], ...
VecStrArg(items) == [type |-> "UVector<UString>", elem |-> "UStringRep", vals |-> items, nullptr |-> FALSE]

\* the members of the documented composite type, class Person, in
\* declaration order
PersonMembers ==
  << [name |-> "age", type |-> "int"],
     [name |-> "lastName", type |-> "UString"],
     [name |-> "firstName", type |-> "UString"] >>

\* a Person whose members hold vals[1], vals[2], vals[3]
PersonArg(vals) == [type |-> "Person", elem |-> "", vals |-> vals, nullptr |-> FALSE]

IsScalar(arg) == arg.type \in ScalarTypes

\* address of the i-th argument (j = 0) or of its j-th element (j > 0)
Ref(i, j) == <<i, j>>

\* ------------------------------------------------------------------------
\* A statement together with the process that owns it
\* ------------------------------------------------------------------------

\* one entry of the trace of adapter activity: what happened (ev), the
\* adapter's type, the address of the variable it wraps, and a flag: for
\* "ctor" / "dtor" whether the non-null assertion failed, for "bindParam" /
\* "bindResult" whether the body dereferenced pval
Ev(ev, T, flag, ref) == [ev |-> ev, type |-> T, flag |-> flag, ref |-> ref]

\* state right after UOrmStatement's constructor has prepared the query
Prepared ==
  [ status   |-> "ok",     \* "ok", "assert" (assertion failed), "error" (U_ERROR), "destroyed", "none"
    pcur     |-> 0,        \* parameter slots used so far
    params   |-> <<>>,     \* parameter binds received by the driver
    rcur     |-> 0,        \* result columns bound so far
    results  |-> <<>>,     \* result binds received by the driver
    events   |-> <<>>,     \* adapter constructions, binds and destructions since prepare or reset
    executed |-> FALSE,    \* execute() has run
    recorded |-> <<>>,     \* parameters the driver ran the statement with
    rows     |-> <<>>,     \* result set of the last execute()
    rowIdx   |-> 0,        \* rows fetched from it
    nextLog  |-> <<>> ]    \* return values of nextRow() since execute()

Alive(r) == r.status = "ok"

\* ------------------------------------------------------------------------
\* Statement primitives (declared in UOrmStatement, forwarded to the driver)
\* ------------------------------------------------------------------------

\* bindParam(): binds SQL NULL at the next parameter slot
StmtBindParamNull(r) ==
  [r EXCEPT !.pcur = @ + 1,
            !.params = Append(@, [slot |-> r.pcur + 1, kind |-> "NULL", val |-> NoVal])]

\* a primitive that forgets to advance the cursor: every bind goes to the
\* same slot
StmtBindParamStuck(r, T, v) ==
  [r EXCEPT !.params = Append(@, [slot |-> r.pcur + 1, kind |-> T, val |-> v])]

\* bindParam(T& v) / bindParam(const char* s): binds v at the next parameter slot
StmtBindParam(r, T, v) ==
  [r EXCEPT !.pcur = @ + 1,
            !.params = Append(@, [slot |-> r.pcur + 1, kind |-> T, val |-> v])]

\* bindResult(T& v): makes the variable at ref the destination of the next column
StmtBindResult(r, T, ref) ==
  [r EXCEPT !.rcur = @ + 1,
            !.results = Append(@, [col |-> r.rcur + 1, kind |-> T, ref |-> ref])]

\* ------------------------------------------------------------------------
\* Type adapters
\* ------------------------------------------------------------------------

\* pointer handed to UOrmTypeHandler_Base by T's constructor: the null
\* specialization passes U_NULLPTR, every other one the address it is given
PvalIsNull(T, nullptr) == IF T = "null" THEN TRUE ELSE nullptr

\* UOrmTypeHandler_Base(ptr): stores ptr, then U_INTERNAL_ASSERT_POINTER(pval)
Ctor(r, T, nullptr, ref) ==
  IF ~Alive(r) THEN r
  ELSE [r EXCEPT !.events = Append(@, Ev("ctor", T, PvalIsNull(T, nullptr), ref)),
                 !.status = IF PvalIsNull(T, nullptr) THEN "assert" ELSE "ok"]

\* ~UOrmTypeHandler_Base(): U_INTERNAL_ASSERT_POINTER(pval)
Dtor(r, T, nullptr, ref) ==
  IF ~Alive(r) THEN r
  ELSE [r EXCEPT !.events = Append(@, Ev("dtor", T, PvalIsNull(T, nullptr), ref)),
                 !.status = IF PvalIsNull(T, nullptr) THEN "assert" ELSE "ok"]

\* a bindParam whose body was pasted from bindResult for the types that have
\* a result primitive
ScalarBindParamPasted(r, T, v, ref) ==
  IF ~Alive(r) THEN r
  ELSE IF T \in ResultPrimitiveTypes
       THEN StmtBindResult([r EXCEPT !.events = Append(@, Ev("bindParam", T, TRUE, ref))], T, ref)
  ELSE IF T = "null"
       THEN StmtBindParamNull([r EXCEPT !.events = Append(@, Ev("bindParam", T, FALSE, ref))])
  ELSE StmtBindParam([r EXCEPT !.events = Append(@, Ev("bindParam", T, T # "const char*", ref))], T, v)

\* UOrmTypeHandler<T>::bindParam(stmt) of the scalar specializations
ScalarBindParam(r, T, v, ref) ==
  IF ~Alive(r) THEN r
  ELSE CASE T = "null" ->
              StmtBindParamNull([r EXCEPT !.events = Append(@, Ev("bindParam", T, FALSE, ref))])
         [] T = "const char*" ->
              StmtBindParam([r EXCEPT !.events = Append(@, Ev("bindParam", T, FALSE, ref))], T, v)
         [] T \in ParamDerefTypes ->
              StmtBindParam([r EXCEPT !.events = Append(@, Ev("bindParam", T, TRUE, ref))], T, v)

\* a UStringRep adapter whose bindResult has an empty body, as the
\* const char* adapter has
ScalarBindResultSilent(r, T, ref) ==
  IF ~Alive(r) THEN r
  ELSE IF T \in ResultPrimitiveTypes
       THEN StmtBindResult([r EXCEPT !.events = Append(@, Ev("bindResult", T, TRUE, ref))], T, ref)
  ELSE [r EXCEPT !.events = Append(@, Ev("bindResult", T, FALSE, ref))]

\* UOrmTypeHandler<T>::bindResult(stmt) of the scalar specializations
ScalarBindResult(r, T, ref) ==
  IF ~Alive(r) THEN r
  ELSE CASE T \in ResultPrimitiveTypes ->
              StmtBindResult([r EXCEPT !.events = Append(@, Ev("bindResult", T, TRUE, ref))], T, ref)
         [] T \in ResultErrorTypes ->
              [r EXCEPT !.events = Append(@, Ev("bindResult", T, FALSE, ref)),
                        !.status = "error"]
         [] T \in ResultNoopTypes ->
              [r EXCEPT !.events = Append(@, Ev("bindResult", T, FALSE, ref))]

\* an adapter allocated for the bind and never deleted
ScalarParamLeaked(r, T, v, nullptr, ref) ==
  ScalarBindParam(Ctor(r, T, nullptr, ref), T, v, ref)

\* stmt->bindParam(UOrmTypeHandler<T>(x)) for a scalar x: the temporary adapter
\* is constructed, bound and destroyed at the end of the full expression
ScalarParam(r, T, v, nullptr, ref) ==
  Dtor(ScalarBindParam(Ctor(r, T, nullptr, ref), T, v, ref), T, nullptr, ref)

\* stmt->bindResult(UOrmTypeHandler<T>(x)) for a scalar x
ScalarResult(r, T, nullptr, ref) ==
  Dtor(ScalarBindResult(Ctor(r, T, nullptr, ref), T, ref), T, nullptr, ref)

RECURSIVE VecBindParamFromBack(_, _, _, _, _)
\* a loop that walks the vector from its end pointer down to its first element
VecBindParamFromBack(r, E, items, i, j) ==
  IF j > Len(items) THEN r
  ELSE CHOOSE out \in { VecBindParamFromBack(v, E, items, i, j + 1) :
                            v \in {ScalarParam(r, E, items[Len(items) + 1 - j], FALSE,
                                               Ref(i, Len(items) + 1 - j))} } : TRUE

RECURSIVE VecBindParamFrom(_, _, _, _, _)
\* the loop of UOrmTypeHandler<UVector<T*> >::bindParam, from element j on:
\* the bind of element j completes (v) before the loop goes on from j + 1
VecBindParamFrom(r, E, items, i, j) ==
  IF j > Len(items) THEN r
  ELSE CHOOSE out \in { VecBindParamFrom(v, E, items, i, j + 1) :
                            v \in {ScalarParam(r, E, items[j], FALSE, Ref(i, j))} } : TRUE

RECURSIVE VecBindResultFromShort(_, _, _, _, _)
\* the loop with an off-by-one end pointer: the last element is never bound
VecBindResultFromShort(r, E, items, i, j) ==
  IF j >= Len(items) THEN r
  ELSE CHOOSE out \in { VecBindResultFromShort(v, E, items, i, j + 1) :
                            v \in {ScalarResult(r, E, FALSE, Ref(i, j))} } : TRUE

RECURSIVE VecBindResultFrom(_, _, _, _, _)
\* the loop of UOrmTypeHandler<UVector<T*> >::bindResult, from element j on
VecBindResultFrom(r, E, items, i, j) ==
  IF j > Len(items) THEN r
  ELSE CHOOSE out \in { VecBindResultFrom(v, E, items, i, j + 1) :
                            v \in {ScalarResult(r, E, FALSE, Ref(i, j))} } : TRUE

\* UOrmTypeHandler<UVector<T*> >::bindParam(stmt)
VecBindParam(r, E, items, i) ==
  IF ~Alive(r) THEN r
  ELSE VecBindParamFrom([r EXCEPT !.events = Append(@, Ev("bindParam", "UVector", TRUE, Ref(i, 0)))],
                        E, items, i, 1)

\* UOrmTypeHandler<UVector<T*> >::bindResult(stmt)
VecBindResult(r, E, items, i) ==
  IF ~Alive(r) THEN r
  ELSE VecBindResultFrom([r EXCEPT !.events = Append(@, Ev("bindResult", "UVector", TRUE, Ref(i, 0)))],
                         E, items, i, 1)

\* UOrmTypeHandler<UVector<UString> >::bindParam(stmt): the base class's loop
\* over the UStringRep elements
VecStrBindParam(r, items, i) == VecBindParam(r, "UStringRep", items, i)

\* a bindResult with an empty body, as the const char* adapter has
VecStrBindResultSilent(r, i) ==
  IF ~Alive(r) THEN r
  ELSE [r EXCEPT !.events = Append(@, Ev("bindResult", "UVector<UString>", TRUE, Ref(i, 0)))]

\* UOrmTypeHandler<UVector<UString> >::bindResult(stmt): U_ERROR
VecStrBindResult(r, i) ==
  IF ~Alive(r) THEN r
  ELSE [r EXCEPT !.events = Append(@, Ev("bindResult", "UVector<UString>", FALSE, Ref(i, 0))),
                 !.status = "error"]

\* Person::bindParam(stmt): stmt->bindParam(U_ORM_TYPE_HANDLER(member, type))
\* for age, lastName, firstName
PersonBindParam(r, vals, i) ==
  ScalarParam(ScalarParam(ScalarParam(r, PersonMembers[1].type, vals[1], FALSE, Ref(i, 1)),
                          PersonMembers[2].type, vals[2], FALSE, Ref(i, 2)),
              PersonMembers[3].type, vals[3], FALSE, Ref(i, 3))

\* Person::bindResult(stmt): stmt->bindResult(U_ORM_TYPE_HANDLER(member, type))
\* for age, lastName, firstName
PersonBindResult(r, vals, i) ==
  ScalarResult(ScalarResult(ScalarResult(r, PersonMembers[1].type, FALSE, Ref(i, 1)),
                            PersonMembers[2].type, FALSE, Ref(i, 2)),
               PersonMembers[3].type, FALSE, Ref(i, 3))

\* a bindParam body pasted from bindResult: ((T*)pval)->bindResult(stmt)
GenericBindParamPasted(r, vals, i) ==
  IF ~Alive(r) THEN r
  ELSE PersonBindResult([r EXCEPT !.events = Append(@, Ev("bindParam", "Person", TRUE, Ref(i, 0)))],
                        vals, i)

\* UOrmTypeHandler<T>::bindParam(stmt) of the generic adapter, T = Person:
\* ((T*)pval)->bindParam(stmt)
GenericBindParam(r, vals, i) ==
  IF ~Alive(r) THEN r
  ELSE PersonBindParam([r EXCEPT !.events = Append(@, Ev("bindParam", "Person", TRUE, Ref(i, 0)))],
                       vals, i)

\* UOrmTypeHandler<T>::bindResult(stmt) of the generic adapter, T = Person:
\* ((T*)pval)->bindResult(stmt)
GenericBindResult(r, vals, i) ==
  IF ~Alive(r) THEN r
  ELSE PersonBindResult([r EXCEPT !.events = Append(@, Ev("bindResult", "Person", TRUE, Ref(i, 0)))],
                        vals, i)

\* UOrmStatement::bindParam(UOrmTypeHandler<T> t), called on a temporary
\* adapter over the caller's i-th argument: t.bindParam(this)
bindParam(r, arg, i) ==
  IF IsScalar(arg) THEN ScalarParam(r, arg.type, arg.vals[1], arg.nullptr, Ref(i, 0))
  ELSE IF arg.type = "UVector"
       THEN Dtor(VecBindParam(Ctor(r, arg.type, FALSE, Ref(i, 0)), arg.elem, arg.vals, i),
                 arg.type, FALSE, Ref(i, 0))
  ELSE IF arg.type = "Person"
       THEN Dtor(GenericBindParam(Ctor(r, arg.type, FALSE, Ref(i, 0)), arg.vals, i),
                 arg.type, FALSE, Ref(i, 0))
  ELSE Dtor(VecStrBindParam(Ctor(r, arg.type, FALSE, Ref(i, 0)), arg.vals, i),
            arg.type, FALSE, Ref(i, 0))

\* UOrmStatement::bindResult(UOrmTypeHandler<T> t), called on a temporary
\* adapter over the caller's i-th argument: t.bindResult(this)
bindResult(r, arg, i) ==
  IF IsScalar(arg) THEN ScalarResult(r, arg.type, arg.nullptr, Ref(i, 0))
  ELSE IF arg.type = "UVector"
       THEN Dtor(VecBindResult(Ctor(r, arg.type, FALSE, Ref(i, 0)), arg.elem, arg.vals, i),
                 arg.type, FALSE, Ref(i, 0))
  ELSE IF arg.type = "Person"
       THEN Dtor(GenericBindResult(Ctor(r, arg.type, FALSE, Ref(i, 0)), arg.vals, i),
                 arg.type, FALSE, Ref(i, 0))
  ELSE Dtor(VecStrBindResult(Ctor(r, arg.type, FALSE, Ref(i, 0)), i),
            arg.type, FALSE, Ref(i, 0))

\* ------------------------------------------------------------------------
\* use(...) and into(...): the fixed-arity helpers
\* ------------------------------------------------------------------------

\* a copy-paste slip in the 13-ary use(...): r12 is bound twice, r13 never
useOrderSlip == [n \in 1..MaxArity |-> [k \in 1..n |-> IF n = 13 /\ k = 13 THEN 12 ELSE k]]

\* the two statements of the binary use(...) exchanged
useOrderSwap == [n \in 1..MaxArity |-> [k \in 1..n |-> IF n = 2 THEN 3 - k ELSE k]]

\* useOrder[n] lists, in statement order, the arguments that the body of the
\* n-ary use(r1,...,rn) hands to bindParam(UOrmTypeHandler<Ti>(ri))
useOrder == [n \in 1..MaxArity |-> [k \in 1..n |-> k]]

\* a copy-paste slip in the 7-ary into(...): r6 is bound twice, r7 never
intoOrderSlip == [n \in 1..MaxArity |-> [k \in 1..n |-> IF n = 7 /\ k = 7 THEN 6 ELSE k]]

\* the two statements of the binary into(...) exchanged
intoOrderSwap == [n \in 1..MaxArity |-> [k \in 1..n |-> IF n = 2 THEN 3 - k ELSE k]]

\* intoOrder[n] lists, in statement order, the arguments that the body of the
\* n-ary into(r1,...,rn) hands to bindResult(UOrmTypeHandler<Ti>(ri))
intoOrder == [n \in 1..MaxArity |-> [k \in 1..n |-> k]]

RECURSIVE UseFrom(_, _, _, _)
\* the statements of a use(...) body from the k-th on
UseFrom(r, args, order, k) ==
  IF k > Len(order) THEN r
  ELSE CHOOSE out \in { UseFrom(v, args, order, k + 1) :
                            v \in {bindParam(r, args[order[k]], order[k])} } : TRUE

RECURSIVE IntoFrom(_, _, _, _)
\* the statements of an into(...) body from the k-th on
IntoFrom(r, args, order, k) ==
  IF k > Len(order) THEN r
  ELSE CHOOSE out \in { IntoFrom(v, args, order, k + 1) :
                            v \in {bindResult(r, args[order[k]], order[k])} } : TRUE

\* a use(...) that checks the number of arguments against the number of
\* placeholders and reports a usage error when they differ
useChecked(r, args) ==
  IF Len(args) # Placeholders THEN [r EXCEPT !.status = "error"]
  ELSE UseFrom(r, args, useOrder[Len(args)], 1)

\* UOrmStatement::use(r1,...,rn)
use(r, args) == UseFrom(r, args, useOrder[Len(args)], 1)

\* UOrmStatement::into(r1,...,rn)
into(r, args) == IntoFrom(r, args, intoOrder[Len(args)], 1)

\* the call does not compile: there is no program and no bind call is issued.
\* UOrmTypeHandler<T&> names the primary template, whose constructor
\* UOrmTypeHandler(T* val) declares a pointer to a reference
Rejected(r) == [r EXCEPT !.status = "illformed"]

\* the fixed-arity use(T1& r1,...): T1& binds lvalues only
useFixed(r, args, lv) == IF lv THEN use(r, args) ELSE Rejected(r)

\* the fixed-arity into(T1& r1,...): T1& binds lvalues only
intoFixed(r, args, lv) == IF lv THEN into(r, args) ELSE Rejected(r)

\* the HAVE_CXX17 use(Ts&&... ts) { (bindParam(UOrmTypeHandler<Ts>(ts)), ...); }
\* an lvalue argument of type T deduces Ts = T&, an rvalue deduces Ts = T;
\* the comma fold evaluates its operands from left to right
useFold(r, args, lv) ==
  IF lv THEN Rejected(r) ELSE UseFrom(r, args, [k \in 1..Len(args) |-> k], 1)

\* the HAVE_CXX17 into(Ts&&... ts) { (bindResult(UOrmTypeHandler<Ts>(ts)), ...); }
intoFold(r, args, lv) ==
  IF lv THEN Rejected(r) ELSE IntoFrom(r, args, [k \in 1..Len(args) |-> k], 1)

\* ------------------------------------------------------------------------
\* Stub driver: execute() and nextRow()
\* ------------------------------------------------------------------------

\* number of columns of the stub's table ("SELECT a,b FROM t")
TableCols == 2

\* value the stub's table holds in row i, column c
CellVal(i, c) == 10 * i + c

\* a result set of k rows read from the stub's table
Table(k) == [i \in 1..k |-> [c \in 1..TableCols |-> [kind |-> "column", val |-> CellVal(i, c)]]]

\* the result set of the echoing stub: one row whose columns are the bound parameters
Echo(r) == << [c \in 1..Len(r.params) |-> [kind |-> r.params[c].kind, val |-> r.params[c].val]] >>

\* result sets the stub driver may answer execute() with
ResultSets(r) == {Echo(r)} \cup {Table(k) : k \in 0..MaxRows}

\* UOrmStatement::execute(): runs the statement with the bound parameters
execute(r, rows) ==
  [r EXCEPT !.executed = TRUE,
            !.recorded = r.params,
            !.rows = rows,
            !.rowIdx = 0,
            !.nextLog = <<>>]

\* TRUE iff nextRow() finds a row to advance to
HasRow(r) == r.rowIdx < Len(r.rows)

\* UOrmStatement::nextRow(), effect on the statement
nextRow(r) ==
  IF HasRow(r)
  THEN [r EXCEPT !.rowIdx = @ + 1, !.nextLog = Append(@, TRUE)]
  ELSE [r EXCEPT !.nextLog = Append(@, FALSE)]

\* result binding that receives column c, if any
BindingsOf(r, ref) == { b \in 1..Len(r.results) : r.results[b].ref = ref }

\* a cursor that wraps around: a nextRow() that finds no row starts over and
\* delivers the rows of the result set again, one per call
fetchIntoWrap(r, m) ==
  IF r.rows = <<>> THEN m
  ELSE LET row == r.rows[(Len(r.nextLog) % Len(r.rows)) + 1]
       IN  [ref \in DOMAIN m |->
              LET bs == { b \in BindingsOf(r, ref) : r.results[b].col <= Len(row) }
              IN  IF bs = {} THEN m[ref]
                  ELSE row[r.results[CHOOSE x \in bs : \A y \in bs : y <= x].col].val]

\* UOrmStatement::nextRow(), effect on the caller's bound variables: every
\* bound destination receives the column it was bound to
fetchInto(r, m) ==
  IF ~HasRow(r) THEN m
  ELSE [ref \in DOMAIN m |->
          LET bs == { b \in BindingsOf(r, ref) : r.results[b].col <= Len(r.rows[r.rowIdx + 1]) }
          IN  IF bs = {} THEN m[ref]
              ELSE LET b == CHOOSE x \in bs : \A y \in bs : y <= x
                   IN  r.rows[r.rowIdx + 1][r.results[b].col].val]

\* a reset that clears the bindings but leaves the position cursors where
\* they were
resetKeepCursors(r) ==
  [r EXCEPT !.params = <<>>, !.results = <<>>, !.events = <<>>,
            !.executed = FALSE, !.recorded = <<>>, !.rows = <<>>,
            !.rowIdx = 0, !.nextLog = <<>>]

\* a reset that discards the result set but keeps the bound parameters
resetKeepParams(r) ==
  [r EXCEPT !.rcur = 0, !.results = <<>>, !.events = <<>>,
            !.executed = FALSE, !.recorded = <<>>, !.rows = <<>>,
            !.rowIdx = 0, !.nextLog = <<>>]

\* UOrmStatement::reset(): "resets a prepared statement on client and server
\* to state after creation": bound parameters and results are discarded, the
\* cursors rewound, the result set dropped
reset(r) ==
  [r EXCEPT !.pcur = 0, !.params = <<>>, !.rcur = 0, !.results = <<>>,
            !.events = <<>>, !.executed = FALSE, !.recorded = <<>>,
            !.rows = <<>>, !.rowIdx = 0, !.nextLog = <<>>]

\* UOrmStatement::~UOrmStatement(), effect on the statement: it is gone
destroy(r) == [r EXCEPT !.status = "destroyed"]

\* a destructor that hands the handle back only if the statement was executed
releaseIfExecuted(h, r) == IF r.executed THEN [h EXCEPT !.releases = @ + 1] ELSE h

\* UOrmStatement::~UOrmStatement(), effect on the driver-statement handle h
\* of statement r: the driver is asked to release it
release(h, r) == [h EXCEPT !.releases = @ + 1]

\* the caller's variables named by an argument list: the scalars themselves
\* and the elements of the vectors
Refs(args) ==
  UNION { IF IsScalar(args[i]) THEN {Ref(i, 0)}
          ELSE {Ref(i, j) : j \in 1..Len(args[i].vals)} : i \in 1..Len(args) }

\* their values before any row is fetched
VarsOf(args) ==
  [ref \in Refs(args) |-> args[ref[1]].vals[IF ref[2] = 0 THEN 1 ELSE ref[2]]]

\* ------------------------------------------------------------------------
\* Sessions and the calls that report the driver's outcome
\* ------------------------------------------------------------------------

\* backend names a session may be constructed with
DriverNames == { "sqlite", "nodriver" }

\* the backends whose driver can be loaded
LoadableDrivers == { "sqlite" }

\* no session constructed yet
NoSession == [name |-> "", state |-> "none", connected |-> FALSE]

\* a session whose driver is loaded
Loaded(name) == [name |-> name, state |-> "constructed", connected |-> TRUE]

\* UOrmSession::loadDriver(backend, len, option): loads the named driver and
\* opens the connection (the driver reports ok or not); a driver that cannot
\* be loaded goes to loadDriverFail(), which does not return
loadDriver(name, ok) ==
  IF name \in LoadableDrivers
  THEN [name |-> name, state |-> "constructed", connected |-> ok]
  ELSE [name |-> name, state |-> "terminated", connected |-> FALSE]

\* no statement constructed yet
NoStatement == [Prepared EXCEPT !.status = "none"]

\* no connect(), query() or execute() call made yet
NoCall == [op |-> "none", driverOk |-> TRUE, driverCalls |-> 0, ret |-> "void"]

\* what a caller gets back from a function declared to return bool
BoolRet(b) == IF b THEN "true" ELSE "false"

\* void UOrmStatement::execute(): one driver call, nothing returned
executeOutcome(ok) == [op |-> "execute", driverOk |-> ok, driverCalls |-> 1, ret |-> "void"]

\* bool UOrmSession::connect(option): one driver call, its result returned
connectOutcome(ok) == [op |-> "connect", driverOk |-> ok, driverCalls |-> 1, ret |-> BoolRet(ok)]

\* bool UOrmSession::query(query, len): one driver call, its result returned
queryOutcome(ok) == [op |-> "query", driverOk |-> ok, driverCalls |-> 1, ret |-> BoolRet(ok)]

\* pipeline mode not entered: no completion callback set, no execution
\* queued (sent) or completed (done, unheard of them with no callback set),
\* no drain call made, no callback invoked
PipeOff ==
  [mode |-> FALSE, handler |-> FALSE, sent |-> 0, done |-> 0, unheard |-> 0,
   drains |-> 0, callbacks |-> <<>>]

\* asyncPipelineMode(function): enters pipeline mode; function, if given, is
\* the completion callback
asyncPipelineMode(p, withHandler) == [p EXCEPT !.mode = TRUE, !.handler = withHandler]

\* setAsyncPipelineHandlerResult(function): sets the completion callback
setAsyncPipelineHandlerResult(p) == [p EXCEPT !.handler = TRUE]

\* asyncPipelineSendQueryPrepared(i): queues one more prepared execution
asyncPipelineSendQueryPrepared(p) == [p EXCEPT !.sent = @ + 1]

\* a drain that reports the last completion of the batch twice
asyncPipelineProcessQueueTwice(p, n) ==
  [p EXCEPT !.done = @ + n,
            !.drains = @ + 1,
            !.callbacks = @ \o [k \in 1..n + 1 |->
                                  [op |-> p.done + (IF k > n THEN n ELSE k), drain |-> p.drains + 1]]]

\* asyncPipelineProcessQueue(n): drains the next n completions in the order
\* the executions were queued, invoking the callback once for each
asyncPipelineProcessQueue(p, n) ==
  [p EXCEPT !.done = @ + n,
            !.drains = @ + 1,
            !.unheard = IF p.handler THEN @ ELSE @ + n,
            !.callbacks = IF p.handler
                          THEN @ \o [k \in 1..n |-> [op |-> p.done + k, drain |-> p.drains + 1]]
                          ELSE @]

\* ------------------------------------------------------------------------
\* Argument lists the callers of the model pass
\* ------------------------------------------------------------------------

\* contents of the vectors: n distinct values, n = 0..MaxVec
VecItems == { [j \in 1..n |-> j] : n \in 0..MaxVec }

VecArgs == { VecArg(E, items) : E \in ElemTypes, items \in VecItems }

VecStrArgs == { VecStrArg(items) : items \in VecItems }

\* every type but the two whose adapters end the process when bound
PlainCycle == SelectSeq(AdapterTypes, LAMBDA T : T \notin {"null", "UStringRep"})

\* n scalar arguments whose types run through cyc from offset o on and whose
\* values are 1..n
CyclePlan(n, o, cyc) ==
  [i \in 1..n |-> ScalarArg(cyc[((o + i - 1) % Len(cyc)) + 1], i)]

LongPlans ==
  { CyclePlan(n, o, cyc) : n \in 3..MaxArity, o \in 0..(MaxOffset - 1),
                           cyc \in {AdapterTypes, PlainCycle} }

PairPlans(types) == { <<ScalarArg(T1, 1), ScalarArg(T2, 2)>> : T1 \in types, T2 \in types }

MixedPlans == { <<ScalarArg("int", 1), v, ScalarArg("UString", 2)>> : v \in VecArgs \cup VecStrArgs }

\* a Person alone, and one between two scalars
PersonPlans ==
  { <<PersonArg(<<v, v + 1, v + 2>>)>> : v \in 1..MaxVal }
    \cup { <<ScalarArg("UString", 1), PersonArg(<<2, 3, 4>>), ScalarArg("int", 5)>> }

\* argument lists of the statement whose binds are compared with manual ones
TwinPlans ==
  { <<a>> : a \in { ScalarArg(T, 1) : T \in ScalarTypes } \cup {NullCStr} \cup VecArgs \cup VecStrArgs }
    \cup PairPlans(ScalarTypes) \cup LongPlans \cup MixedPlans \cup PersonPlans

\* types of the arguments of the two-argument calls of the statement that is executed
LifeTypes == { "int", "const char*", "UString", "UStringRep", "struct tm", "null" }

LifeVecs == { VecArg(E, items) : E \in {"int", "UStringRep"}, items \in VecItems }

\* argument lists passed to use(...) of the statement that is executed
LifeUsePlans ==
  { <<ScalarArg(T, v)>> : T \in ScalarTypes, v \in 1..MaxVal }
    \cup { <<NullCStr>> } \cup { <<a>> : a \in LifeVecs }
    \cup PairPlans(LifeTypes)
    \cup { CyclePlan(n, 0, PlainCycle) : n \in 3..MaxArity }

\* argument lists passed to use(...) of the statement that is reset and destroyed
CycleUsePlans ==
  { <<ScalarArg("int", v)>> : v \in 1..MaxVal }
    \cup { <<ScalarArg("int", 1), ScalarArg("const char*", 2)>>,
           <<VecArg("int", <<>>)>>,
           CyclePlan(3, 0, PlainCycle) }

\* argument lists passed to into(...) of the statement that is reset and destroyed
CycleIntoPlans ==
  { <<ScalarArg("int", NoVal)>>,
    <<ScalarArg("const char*", NoVal)>>,
    <<ScalarArg("int", NoVal), ScalarArg("UString", NoVal)>> }

\* argument lists passed to into(...) of the statement that is executed
LifeIntoPlans ==
  { <<ScalarArg(T, NoVal)>> : T \in ScalarTypes }
    \cup { <<a>> : a \in LifeVecs }
    \cup { <<ScalarArg(T1, NoVal), ScalarArg(T2, NoVal)>> : T1 \in LifeTypes, T2 \in LifeTypes }
    \cup { [i \in 1..n |-> ScalarArg("int", NoVal)] : n \in {3, MaxArity} }

\* ------------------------------------------------------------------------
\* State
\* ------------------------------------------------------------------------

VARIABLES
  stmt,      \* the statement under test and the process that owns it
  useArgs,   \* arguments of the use(...) call made on stmt, <<>> before it
  intoArgs,  \* arguments of the into(...) call made on stmt, <<>> before it
  mem,       \* the caller's variables handed to into(...), by address
  twin,      \* an identically prepared statement bound by manual calls
  twinPos,   \* number of manual bindParam / bindResult calls made on twin
  sess,      \* the session the statements are created from
  handle,    \* the driver-statement handle owned by stmt
  resets,    \* number of reset() calls made on stmt
  outcome,   \* the last connect() / query() / execute() call and its result
  pipe,      \* pipelined execution of stmt
  lvalues    \* whether the arguments of use(...) / into(...) are lvalue expressions

vars == <<stmt, useArgs, intoArgs, mem, twin, twinPos, sess, handle, resets, outcome, pipe, lvalues>>

\* the session, the handle and the pipeline
sessVars == <<sess, handle, pipe>>

Init ==
  /\ stmt = Prepared
  /\ useArgs = <<>>
  /\ intoArgs = <<>>
  /\ mem = VarsOf(<<>>)
  /\ twin = Prepared
  /\ twinPos = 0
  /\ sess = Loaded("sqlite")
  /\ handle = [prepares |-> 1, releases |-> 0]
  /\ resets = 0
  /\ outcome = NoCall
  /\ pipe = PipeOff
  /\ lvalues = TRUE

\* ------------------------------------------------------------------------
\* Actions
\* ------------------------------------------------------------------------

\* the caller calls stmt.use(args)
Use(args) ==
  /\ Alive(stmt)
  /\ useArgs = <<>>
  /\ ~stmt.executed
  /\ stmt' = use(stmt, args)
  /\ useArgs' = args
  /\ UNCHANGED <<intoArgs, mem, twin, twinPos, sessVars, resets, outcome, lvalues>>

\* the caller calls stmt.into(args)
Into(args) ==
  /\ Alive(stmt)
  /\ intoArgs = <<>>
  /\ stmt.nextLog = <<>>
  /\ stmt' = into(stmt, args)
  /\ intoArgs' = args
  /\ mem' = VarsOf(args)
  /\ UNCHANGED <<useArgs, twin, twinPos, sessVars, resets, outcome, lvalues>>

\* the caller calls stmt.execute(); the stub driver runs the statement (ok)
\* and answers with rows, or fails (~ok) and answers with no result set
Execute(rows, ok) ==
  /\ Alive(stmt)
  /\ ~ok => rows = <<>>
  /\ stmt' = execute(stmt, rows)
  /\ outcome' = executeOutcome(ok)
  /\ UNCHANGED <<useArgs, intoArgs, mem, twin, twinPos, sessVars, resets, lvalues>>

\* the caller calls stmt.nextRow()
NextRow ==
  /\ Alive(stmt)
  /\ stmt.executed
  /\ Len(stmt.nextLog) < Len(stmt.rows) + MaxExtra
  /\ stmt' = nextRow(stmt)
  /\ mem' = fetchInto(stmt, mem)
  /\ UNCHANGED <<useArgs, intoArgs, twin, twinPos, sessVars, resets, outcome, lvalues>>

\* a constructor that forgets to load the driver
SessionCtorNoLoad(name, ok) ==
  /\ sess.state = "none"
  /\ sess' = [name |-> name, state |-> "constructed", connected |-> FALSE]
  /\ UNCHANGED <<stmt, useArgs, intoArgs, mem, twin, twinPos, handle, pipe, resets, outcome, lvalues>>

\* UOrmSession::UOrmSession(backend, len, option): loadDriver(backend, len, option)
SessionCtor(name, ok) ==
  /\ sess.state = "none"
  /\ sess' = loadDriver(name, ok)
  /\ UNCHANGED <<stmt, useArgs, intoArgs, mem, twin, twinPos, handle, pipe, resets, outcome, lvalues>>

\* the caller calls session.connect(option); the driver reports ok or not
Connect(ok) ==
  /\ sess.state = "constructed"
  /\ sess' = [sess EXCEPT !.connected = ok]
  /\ outcome' = connectOutcome(ok)
  /\ UNCHANGED <<stmt, useArgs, intoArgs, mem, twin, twinPos, handle, pipe, resets, lvalues>>

\* the caller calls session.query(query, len); the driver reports ok or not
Query(ok) ==
  /\ sess.state = "constructed"
  /\ outcome' = queryOutcome(ok)
  /\ UNCHANGED <<stmt, useArgs, intoArgs, mem, twin, twinPos, sessVars, resets, lvalues>>

\* the caller constructs stmt from the session: the driver prepares the query
Construct ==
  /\ sess.state = "constructed"
  /\ stmt = NoStatement
  /\ stmt' = Prepared
  /\ handle' = [handle EXCEPT !.prepares = @ + 1]
  /\ UNCHANGED <<useArgs, intoArgs, mem, twin, twinPos, sess, pipe, resets, outcome, lvalues>>

\* the caller calls stmt.asyncPipelineMode(function), with or without a callback
PipelineMode(withHandler) ==
  /\ Alive(stmt)
  /\ ~pipe.mode
  /\ pipe' = asyncPipelineMode(pipe, withHandler)
  /\ UNCHANGED <<stmt, useArgs, intoArgs, mem, twin, twinPos, sess, handle, resets, outcome, lvalues>>

\* the caller calls stmt.setAsyncPipelineHandlerResult(function)
SetHandler ==
  /\ Alive(stmt)
  /\ ~pipe.handler
  /\ pipe' = setAsyncPipelineHandlerResult(pipe)
  /\ UNCHANGED <<stmt, useArgs, intoArgs, mem, twin, twinPos, sess, handle, resets, outcome, lvalues>>

\* the caller calls stmt.asyncPipelineSendQueryPrepared(i)
SendQueryPrepared ==
  /\ Alive(stmt)
  /\ pipe.mode
  /\ pipe.sent < MaxQueued
  /\ pipe' = asyncPipelineSendQueryPrepared(pipe)
  /\ UNCHANGED <<stmt, useArgs, intoArgs, mem, twin, twinPos, sess, handle, resets, outcome, lvalues>>

\* the caller calls stmt.asyncPipelineProcessQueue(n) for n queued executions
\* not drained yet
ProcessQueue(n) ==
  /\ Alive(stmt)
  /\ pipe.mode
  /\ n <= pipe.sent - pipe.done
  /\ pipe' = asyncPipelineProcessQueue(pipe, n)
  /\ UNCHANGED <<stmt, useArgs, intoArgs, mem, twin, twinPos, sess, handle, resets, outcome, lvalues>>

\* the caller calls stmt.reset(); the variables once handed to into(...) are
\* no longer bound and leave the model
Reset ==
  /\ Alive(stmt)
  /\ resets < MaxResets
  /\ stmt' = reset(stmt)
  /\ resets' = resets + 1
  /\ useArgs' = <<>>
  /\ intoArgs' = <<>>
  /\ mem' = VarsOf(<<>>)
  /\ UNCHANGED <<twin, twinPos, sessVars, outcome, lvalues>>

\* stmt goes out of scope or is deleted: its destructor runs
Destroy ==
  /\ Alive(stmt)
  /\ stmt' = destroy(stmt)
  /\ handle' = release(handle, stmt)
  /\ UNCHANGED <<useArgs, intoArgs, mem, twin, twinPos, sess, pipe, resets, outcome, lvalues>>

\* the caller of the twin makes the next manual call
\* twin.bindParam(UOrmTypeHandler<T>(r)) on the arguments given to stmt.use
ManualBindParam ==
  /\ Alive(twin)
  /\ twinPos < Len(useArgs)
  /\ twin' = bindParam(twin, useArgs[twinPos + 1], twinPos + 1)
  /\ twinPos' = twinPos + 1
  /\ UNCHANGED <<stmt, useArgs, intoArgs, mem, sessVars, resets, outcome, lvalues>>

\* the caller of the twin makes the next manual call
\* twin.bindResult(UOrmTypeHandler<T>(r)) on the arguments given to stmt.into
ManualBindResult ==
  /\ Alive(twin)
  /\ twinPos < Len(intoArgs)
  /\ twin' = bindResult(twin, intoArgs[twinPos + 1], twinPos + 1)
  /\ twinPos' = twinPos + 1
  /\ UNCHANGED <<stmt, useArgs, intoArgs, mem, sessVars, resets, outcome, lvalues>>

\* the caller calls stmt.use(args) in a build with HAVE_CXX17; the arguments
\* are variables (lv) or temporaries / moved-from variables (~lv)
UseFold(args, lv) ==
  /\ Alive(stmt)
  /\ useArgs = <<>> /\ intoArgs = <<>>
  /\ stmt' = useFold(stmt, args, lv)
  /\ useArgs' = args
  /\ lvalues' = lv
  /\ UNCHANGED <<intoArgs, mem, twin, twinPos, sessVars, resets, outcome>>

\* the caller calls stmt.into(args) in a build with HAVE_CXX17
IntoFold(args, lv) ==
  /\ Alive(stmt)
  /\ useArgs = <<>> /\ intoArgs = <<>>
  /\ stmt' = intoFold(stmt, args, lv)
  /\ intoArgs' = args
  /\ mem' = VarsOf(args)
  /\ lvalues' = lv
  /\ UNCHANGED <<useArgs, twin, twinPos, sessVars, resets, outcome>>

\* the same call of use(...) made on the twin in a build without HAVE_CXX17
FixedUse ==
  /\ Alive(twin)
  /\ twinPos = 0 /\ useArgs # <<>>
  /\ twin' = useFixed(twin, useArgs, lvalues)
  /\ twinPos' = Len(useArgs)
  /\ UNCHANGED <<stmt, useArgs, intoArgs, mem, sessVars, resets, outcome, lvalues>>

\* the same call of into(...) made on the twin in a build without HAVE_CXX17
FixedInto ==
  /\ Alive(twin)
  /\ twinPos = 0 /\ intoArgs # <<>>
  /\ twin' = intoFixed(twin, intoArgs, lvalues)
  /\ twinPos' = Len(intoArgs)
  /\ UNCHANGED <<stmt, useArgs, intoArgs, mem, sessVars, resets, outcome, lvalues>>

\* a statement that is bound, executed once and fetched from
Next ==
  \/ \E args \in LifeUsePlans : Use(args)
  \/ \E args \in LifeIntoPlans : Into(args)
  \/ \E rows \in ResultSets(stmt) : ~stmt.executed /\ Execute(rows, TRUE)
  \/ ~stmt.executed /\ Execute(<<>>, FALSE)
  \/ NextRow

Spec == Init /\ [][Next]_vars

\* a statement that is bound, executed, fetched from, reset and destroyed
NextCycle ==
  \/ \E args \in CycleUsePlans : Use(args)
  \/ \E args \in CycleIntoPlans : Into(args)
  \/ \E rows \in ResultSets(stmt) : Execute(rows, TRUE)
  \/ Execute(<<>>, FALSE)
  \/ NextRow
  \/ Reset
  \/ Destroy

SpecCycle == Init /\ [][NextCycle]_vars

\* no session and no statement constructed yet
InitSession ==
  /\ stmt = NoStatement
  /\ useArgs = <<>>
  /\ intoArgs = <<>>
  /\ mem = VarsOf(<<>>)
  /\ twin = Prepared
  /\ twinPos = 0
  /\ sess = NoSession
  /\ handle = [prepares |-> 0, releases |-> 0]
  /\ resets = 0
  /\ outcome = NoCall
  /\ pipe = PipeOff
  /\ lvalues = TRUE

\* a session is constructed and used directly and through one statement
NextSession ==
  \/ \E name \in DriverNames, ok \in BOOLEAN : SessionCtor(name, ok)
  \/ \E ok \in BOOLEAN : Connect(ok)
  \/ \E ok \in BOOLEAN : Query(ok)
  \/ Construct
  \/ \E args \in CycleUsePlans : Use(args)
  \/ \E rows \in ResultSets(stmt) : Execute(rows, TRUE)
  \/ Execute(<<>>, FALSE)

SpecSession == InitSession /\ [][NextSession]_vars

\* a statement that is bound and then executed in pipeline mode
NextPipe ==
  \/ \E args \in CycleUsePlans : Use(args)
  \/ \E h \in BOOLEAN : PipelineMode(h)
  \/ SetHandler
  \/ SendQueryPrepared
  \/ \E n \in 1..MaxQueued : ProcessQueue(n)

SpecPipe == Init /\ [][NextPipe]_vars

\* a statement bound by one use(...) or into(...) call, next to a twin bound
\* by the equivalent manual calls
NextTwin ==
  \/ \E args \in TwinPlans : intoArgs = <<>> /\ Use(args)
  \/ \E args \in TwinPlans : useArgs = <<>> /\ Into(args)
  \/ ManualBindParam
  \/ ManualBindResult

SpecTwin == Init /\ [][NextTwin]_vars

\* a statement bound by the fold form of use(...) or into(...), next to a
\* twin bound by the fixed-arity form called on the same arguments
NextFold ==
  \/ \E args \in TwinPlans, lv \in BOOLEAN : UseFold(args, lv)
  \/ \E args \in TwinPlans, lv \in BOOLEAN : IntoFold(args, lv)
  \/ FixedUse
  \/ FixedInto

SpecFold == Init /\ [][NextFold]_vars

\* ------------------------------------------------------------------------
\* Properties
\* ------------------------------------------------------------------------

\* the manual calls on the twin have all been made, or have ended its process
TwinDone(args) == twinPos = Len(args) \/ ~Alive(twin)

\* C1: use(r1,...,rn) hands the driver the same parameter binds, in the same
\* order, as n manual bindParam calls on r1, ..., rn made one after the other
\* on an identically prepared statement, and ends in the same way.
C1_UseEqualsManualBinds ==
  (useArgs # <<>> /\ TwinDone(useArgs)) =>
     /\ stmt.params = twin.params
     /\ stmt.pcur = twin.pcur
     /\ stmt.status = twin.status

\* a 20-ary use(...) and its 20 manual calls have both completed
C1_Witness ==
  /\ Len(useArgs) = MaxArity
  /\ twinPos = MaxArity
  /\ Alive(stmt) /\ Alive(twin)
  /\ Len(stmt.params) = MaxArity

\* C2: into(r1,...,rn) hands the driver the same result binds, in the same
\* order, as n manual bindResult calls on r1, ..., rn made one after the other
\* on an identically prepared statement, and ends in the same way.
C2_IntoEqualsManualBinds ==
  (intoArgs # <<>> /\ TwinDone(intoArgs)) =>
     /\ stmt.results = twin.results
     /\ stmt.rcur = twin.rcur
     /\ stmt.status = twin.status

\* a 20-ary into(...) and its 20 manual calls have both completed
C2_Witness ==
  /\ Len(intoArgs) = MaxArity
  /\ twinPos = MaxArity
  /\ Alive(stmt) /\ Alive(twin)
  /\ Len(stmt.results) >= MaxArity - 3

\* the text-reference adapters
TextRefTypes == { "const char*", "UStringRep" }

\* C3: into(x) with x of a text-reference type (const char* or UStringRep)
\* always ends in a usage error.
C3_TextRefResultIsUsageError ==
  (Len(intoArgs) = 1 /\ intoArgs[1].type \in TextRefTypes /\ ~intoArgs[1].nullptr)
     => stmt.status = "error"

\* the scalar types the round trip is claimed for
RoundTripTypes == ResultPrimitiveTypes \cup { "struct tm", "istream" }

\* use(v), into(x) with v and x of the same type T, execute() on the echoing
\* stub and one successful nextRow()
RoundTripDone ==
  /\ Len(useArgs) = 1 /\ Len(intoArgs) = 1
  /\ useArgs[1].type = intoArgs[1].type
  /\ useArgs[1].type \in RoundTripTypes
  /\ stmt.executed
  /\ stmt.rows = Echo(stmt)
  /\ stmt.nextLog = <<TRUE>>

\* C4: a value bound as a parameter through T's adapter and echoed back by
\* the driver as a result column is read back equal through T's result binding.
C4_RoundTrip == RoundTripDone => mem[Ref(1, 0)] = useArgs[1].vals[1]

\* the argument list of the one call made on stmt
CallArgs == IF useArgs # <<>> THEN useArgs ELSE intoArgs

\* the adapter of event e was constructed over a null pointer
OverNull(e) == e.ref[2] = 0 /\ CallArgs[e.ref[1]].nullptr

\* C5: the non-null assertion of an adapter's constructor and destructor
\* fails exactly for the adapters, other than the null sentinel's, that are
\* constructed over a null pointer; the sentinel's never fails.
C5_AssertionSparesSentinel ==
  \A k \in 1..Len(stmt.events) :
     LET e == stmt.events[k]
     IN  e.ev \in {"ctor", "dtor"} => (e.flag <=> (e.type # "null" /\ OverNull(e)))

\* C6: use(n) with n the null sentinel issues exactly one SQL-NULL parameter
\* bind, at the next slot, and the adapter never dereferences its pointer.
C6_NullBindsOneSqlNull ==
  (Len(useArgs) = 1 /\ useArgs[1].type = "null") =>
     /\ stmt.params = << [slot |-> 1, kind |-> "NULL", val |-> NoVal] >>
     /\ \A k \in 1..Len(stmt.events) :
           (stmt.events[k].ev = "bindParam" /\ stmt.events[k].type = "null")
              => ~stmt.events[k].flag

\* result bindings registered for the variable at ref as a destination of type T
Registered(r, T, ref) ==
  { b \in 1..Len(r.results) : r.results[b].ref = ref /\ r.results[b].kind = T }

\* C7: whenever the bindResult(stmt) of a scalar adapter of type T has run,
\* the statement's result primitive for T has been called exactly once for
\* the wrapped variable, which is thereby the destination of a result column.
C7_BindResultCallsPrimitiveOnce ==
  \A k \in 1..Len(stmt.events) :
     LET e == stmt.events[k]
     IN  (e.ev = "bindResult" /\ e.type \in ScalarTypes) =>
            Cardinality(Registered(stmt, e.type, e.ref)) = 1

BindEvents == { "bindParam", "bindResult" }

\* the sequence adapter over the i-th argument ran its bind body
VecBound(r, i) ==
  \E k \in 1..Len(r.events) :
     r.events[k].ev \in BindEvents /\ r.events[k].type = "UVector" /\ r.events[k].ref = Ref(i, 0)

\* the element binds made for the i-th argument: element type and address
ElemBinds(r, i) ==
  LET evs == SelectSeq(r.events, LAMBDA e : e.ev \in BindEvents /\ e.ref[1] = i /\ e.ref[2] > 0)
  IN  [k \in 1..Len(evs) |-> [type |-> evs[k].type, ref |-> evs[k].ref]]

\* the first m elements of the i-th argument, in index order
FirstElems(args, i, m) == [j \in 1..m |-> [type |-> args[i].elem, ref |-> Ref(i, j)]]

\* a UVector<T*> argument of the one call made on stmt
IsVec(i) == i \in 1..Len(CallArgs) /\ CallArgs[i].type = "UVector"

ElemBindCount(E, n, asResult) ==
  IF asResult /\ E \in ResultErrorTypes /\ n >= 1 THEN 1 ELSE n

ParamKind(T) == IF T = "null" THEN "NULL" ELSE T

AllScalar(args) == \A i \in 1..Len(args) : IsScalar(args[i])

\* C9: after use(p1,...,pn) and execute() the driver has run the statement
\* with exactly p1, ..., pn, one per placeholder, in argument order.
C9_ExecuteRecordsUseArgs ==
  (stmt.executed /\ useArgs # <<>> /\ AllScalar(useArgs)) =>
     stmt.recorded = [i \in 1..Len(useArgs) |->
                        [slot |-> i, kind |-> ParamKind(useArgs[i].type), val |-> useArgs[i].vals[1]]]

\* use(i, s) with an int and a const char*, then execute()
C9_Witness ==
  /\ stmt.executed
  /\ Len(useArgs) = 2
  /\ useArgs[1].type = "int" /\ useArgs[2].type = "const char*"
  /\ Len(stmt.recorded) = 2

\* into(x, y) with both x and y of types that have a result primitive
BoundPair ==
  /\ Len(intoArgs) = 2
  /\ intoArgs[1].type \in ResultPrimitiveTypes
  /\ intoArgs[2].type \in ResultPrimitiveTypes

\* C10: after into(x, y) on a result set of k rows nextRow() returns true
\* once per row and then false, and once it has returned false x and y hold
\* the first and second column of the last row.
C10_RowsThenFalseKeepsLast ==
  stmt.executed =>
     /\ \A n \in 1..Len(stmt.nextLog) : stmt.nextLog[n] = (n <= Len(stmt.rows))
     /\ (/\ BoundPair
         /\ Len(stmt.nextLog) > Len(stmt.rows)
         /\ Len(stmt.rows) >= 1
         /\ Len(stmt.rows[Len(stmt.rows)]) >= 2) =>
           /\ mem[Ref(1, 0)] = stmt.rows[Len(stmt.rows)][1].val
           /\ mem[Ref(2, 0)] = stmt.rows[Len(stmt.rows)][2].val

\* into(x, y), MaxRows rows fetched, then nextRow() has returned false
C10_Witness ==
  /\ BoundPair
  /\ stmt.executed
  /\ Len(stmt.rows) = MaxRows
  /\ stmt.nextLog = [n \in 1..MaxRows + 1 |-> n <= MaxRows]
  /\ mem[Ref(1, 0)] = CellVal(MaxRows, 1)
  /\ mem[Ref(2, 0)] = CellVal(MaxRows, 2)

\* last element of a non-empty sequence
Last(s) == s[Len(s)]

\* nextRow() has returned false since the last execute()
RowsExhausted(r) == r.executed /\ r.nextLog # <<>> /\ ~Last(r.nextLog)

\* C11: once nextRow() has returned false, a further nextRow() call also
\* returns false and leaves every bound output variable as it was.
C11_ExhaustedStaysFalse ==
  [][ (RowsExhausted(stmt) /\ Len(stmt'.nextLog) = Len(stmt.nextLog) + 1)
         => (~Last(stmt'.nextLog) /\ mem' = mem) ]_vars

\* into(x, y), MaxRows rows fetched, then MaxExtra nextRow() calls that
\* returned false, x still holding the last row's first column
C11_Witness ==
  /\ BoundPair
  /\ stmt.executed
  /\ Len(stmt.rows) = MaxRows
  /\ stmt.nextLog = [n \in 1..MaxRows + MaxExtra |-> n <= MaxRows]
  /\ mem[Ref(1, 0)] = CellVal(MaxRows, 1)

\* a statement run after a reset: reset(), at most one use(...), execute()
RunAfterReset ==
  /\ resets > 0
  /\ Alive(stmt)
  /\ stmt.executed
  /\ stmt.nextLog = <<>>
  /\ intoArgs = <<>>

\* the same calls made on a freshly prepared statement, the driver answering
\* with the same result set
FreshRun == execute(IF useArgs = <<>> THEN Prepared ELSE use(Prepared, useArgs), stmt.rows)

\* C12: reset() puts the statement back into its state after preparation (no
\* bound parameters, no bound results) without preparing the query again; a
\* second reset() changes nothing more; and after reset(), use(args) and
\* execute() the statement is in the state a freshly prepared one is in after
\* the same use(args) and execute().
C12_ResetRestoresPrepared ==
  [][ /\ (resets' > resets) =>
           /\ stmt' = Prepared
           /\ reset(stmt') = stmt'
           /\ handle' = handle
      /\ RunAfterReset' => (stmt' = FreshRun') ]_vars

\* reset() called twice, then use(i, s) and execute()
C12_Witness ==
  /\ resets = MaxResets
  /\ RunAfterReset
  /\ Len(useArgs) = 2
  /\ Len(stmt.recorded) = 2
  /\ stmt.recorded[1].slot = 1

\* the lifecycle states of a statement
Phases == { "Prepared", "Bound", "Executed", "RowAvailable", "Exhausted" }

\* the lifecycle state a statement is in
Phase(r) ==
  IF ~r.executed THEN (IF r.pcur = 0 /\ r.rcur = 0 THEN "Prepared" ELSE "Bound")
  ELSE IF r.nextLog = <<>> THEN "Executed"
  ELSE IF Last(r.nextLog) THEN "RowAvailable"
  ELSE "Exhausted"

\* the transitions the lifecycle names
LifecycleEdges ==
  { <<"Prepared", "Bound">>, <<"Bound", "Executed">>, <<"Executed", "Bound">>,
    <<"Executed", "RowAvailable">>, <<"RowAvailable", "RowAvailable">>,
    <<"RowAvailable", "Exhausted">> }
    \cup { <<p, "Prepared">> : p \in Phases }

\* the transitions a statement makes besides them: execute() of a statement
\* on which nothing is bound, the first nextRow() on an empty result set,
\* execute() of a statement that was already executed
FurtherEdges ==
  { <<"Prepared", "Executed">>, <<"Executed", "Exhausted">>,
    <<"RowAvailable", "Executed">>, <<"Exhausted", "Executed">> }

\* every call made on a live statement leaves it in its lifecycle state or
\* moves it along one of the transitions in edges
MovesAlong(edges) ==
  (Alive(stmt) /\ Alive(stmt') /\ Phase(stmt') # Phase(stmt))
     => <<Phase(stmt), Phase(stmt')>> \in edges

C14_DestroyReleasesOnce ==
  /\ Alive(stmt) => (ENABLED Destroy /\ handle.releases = 0)
  /\ stmt.status = "destroyed" => handle.releases = 1

\* a statement destroyed while a row was available
C14_Witness ==
  /\ stmt.status = "destroyed"
  /\ Phase(stmt) = "RowAvailable"
  /\ handle.releases = 1

\* C15: a session constructed with a driver name that cannot be loaded
\* terminates the process inside its constructor: no connect(), query() or
\* execute() call is made through it and no statement is prepared or bound.
C15_UnloadableDriverTerminates ==
  (sess.state # "none" /\ sess.name \notin LoadableDrivers) =>
     /\ sess.state = "terminated"
     /\ outcome = NoCall
     /\ stmt = NoStatement
     /\ handle.prepares = 0

\* the constructor was given a driver that cannot be loaded
C15_Witness ==
  /\ sess.name \in DriverNames \ LoadableDrivers
  /\ sess.state = "terminated"

C16_SlotsFollowCallOrder ==
  /\ stmt.pcur = Len(stmt.params)
  /\ \A j \in 1..Len(stmt.params) : stmt.params[j].slot = j
  /\ stmt.rcur = Len(stmt.results)
  /\ \A j \in 1..Len(stmt.results) : stmt.results[j].col = j
  /\ (Alive(stmt) /\ AllScalar(useArgs)) =>
        \A j \in 1..Len(stmt.params) : stmt.params[j].val = useArgs[j].vals[1]
  /\ (Alive(stmt) /\ \A i \in 1..Len(intoArgs) : intoArgs[i].type \in ResultPrimitiveTypes) =>
        \A j \in 1..Len(stmt.results) : stmt.results[j].ref = Ref(j, 0)

\* three parameters and two results bound after a reset()
C16_Witness ==
  /\ resets > 0
  /\ Alive(stmt)
  /\ stmt.pcur = 3
  /\ stmt.rcur = 2
  /\ stmt.params[3].slot = 3
  /\ stmt.results[2].col = 2

\* callbacks invoked for queued execution op
CallbacksFor(op) == { k \in 1..Len(pipe.callbacks) : pipe.callbacks[k].op = op }

\* every callback was invoked for a queued execution during a drain call, at
\* most once per execution, and once for every execution drained while a
\* callback was set
CallbacksMatchCompletions ==
  /\ \A k \in 1..Len(pipe.callbacks) :
        /\ pipe.callbacks[k].op \in 1..pipe.sent
        /\ pipe.callbacks[k].drain \in 1..pipe.drains
  /\ \A op \in 1..MaxQueued + 1 : Cardinality(CallbacksFor(op)) <= 1
  /\ Len(pipe.callbacks) + pipe.unheard = pipe.done
  /\ pipe.done <= pipe.sent

\* C18: in pipeline mode the completion callback is invoked exactly once for
\* each completed queued execution, never twice for one and never for one
\* that was not queued, and only inside a drain call made by the caller.
C18_CallbackOncePerCompletion ==
  [][ /\ CallbacksMatchCompletions'
      /\ pipe'.callbacks # pipe.callbacks =>
            (pipe'.drains = pipe.drains + 1 /\ pipe'.sent = pipe.sent) ]_vars

\* MaxQueued executions queued with a callback set, all drained, in two drain calls
C18_Witness ==
  /\ pipe.sent = MaxQueued
  /\ pipe.done = MaxQueued
  /\ pipe.unheard = 0
  /\ pipe.drains = 2
  /\ Len(pipe.callbacks) = MaxQueued

\* the i-th argument of the one call made on stmt is a Person
IsPerson(i) == i \in 1..Len(CallArgs) /\ CallArgs[i].type = "Person"

\* the calls of Person's own bind method made for the i-th argument
OwnBindCalls(r, i) ==
  { k \in 1..Len(r.events) :
       r.events[k].ev \in BindEvents /\ r.events[k].type = "Person" /\ r.events[k].ref = Ref(i, 0) }

\* the member binds made for the i-th argument, each with the bind it came through
MemberBinds(r, i) ==
  LET evs == SelectSeq(r.events, LAMBDA e : e.ev \in BindEvents /\ e.ref[1] = i /\ e.ref[2] > 0)
  IN  [k \in 1..Len(evs) |-> [ev |-> evs[k].ev, type |-> evs[k].type, ref |-> evs[k].ref]]

\* C19: use(obj) / into(obj) with obj a Person calls Person's own bindParam /
\* bindResult exactly once, and the member binds it yields are those of age,
\* lastName, firstName, in that order; use(obj) alone binds the three member
\* values at slots 1, 2, 3 and into(obj) alone the three members to columns
\* 1, 2, 3.
C19_CompositeBindsMembersInOrder ==
  \A i \in 1..MaxArity :
     (IsPerson(i) /\ stmt.events # <<>>) =>
        /\ Cardinality(OwnBindCalls(stmt, i)) = 1
        /\ MemberBinds(stmt, i) =
             [j \in 1..Len(PersonMembers) |->
                [ev |-> IF useArgs # <<>> THEN "bindParam" ELSE "bindResult",
                 type |-> PersonMembers[j].type, ref |-> Ref(i, j)]]
        /\ (Len(CallArgs) = 1 /\ useArgs # <<>>) =>
             stmt.params = [j \in 1..Len(PersonMembers) |->
                              [slot |-> j, kind |-> PersonMembers[j].type, val |-> CallArgs[1].vals[j]]]
        /\ (Len(CallArgs) = 1 /\ intoArgs # <<>>) =>
             stmt.results = [j \in 1..Len(PersonMembers) |->
                               [col |-> j, kind |-> PersonMembers[j].type, ref |-> Ref(1, j)]]

\* use(s, obj, i) with obj a Person between two scalars: five parameters bound
C19_Witness ==
  /\ Len(useArgs) = 3
  /\ useArgs[2].type = "Person"
  /\ Alive(stmt)
  /\ Len(stmt.params) = 5
  /\ stmt.params[2].kind = "int" /\ stmt.params[2].val = useArgs[2].vals[1]
  /\ stmt.params[4].kind = "UString" /\ stmt.params[4].val = useArgs[2].vals[3]

\* C20: after into(r1,...,rn) with scalar arguments, every argument whose
\* type has a result primitive is the destination of the column at its own
\* position, whatever the types of the arguments before it.
C20_IntoBindsArgToOwnColumn ==
  (intoArgs # <<>> /\ AllScalar(intoArgs) /\ Alive(stmt)) =>
     \A i \in 1..Len(intoArgs) :
        intoArgs[i].type \in ResultPrimitiveTypes =>
           \E b \in 1..Len(stmt.results) :
              stmt.results[b].col = i /\ stmt.results[b].ref = Ref(i, 0)

\* no argument is a null sentinel or a null pointer (the arguments whose
\* adapters fail their own non-null assertion)
NoSentinel(args) == \A i \in 1..Len(args) : args[i].type # "null" /\ ~args[i].nullptr

\* the arguments handed to bindParam by the call made on stmt, in call order
TopParamBinds(r) ==
  LET evs == SelectSeq(r.events, LAMBDA e : e.ev = "bindParam" /\ e.ref[2] = 0)
  IN  [k \in 1..Len(evs) |-> evs[k].ref[1]]

\* C21: use(...) with n arguments on a statement whose query has Placeholders
\* placeholders makes the bind call of every one of the n arguments, in
\* argument order, and ends without an error, whether n is less than, equal
\* to or greater than Placeholders.
C21_UseIgnoresPlaceholderCount ==
  (useArgs # <<>> /\ NoSentinel(useArgs)) =>
     /\ Alive(stmt)
     /\ TopParamBinds(stmt) = [i \in 1..Len(useArgs) |-> i]
     /\ AllScalar(useArgs) => stmt.pcur = Len(useArgs)

\* a 20-ary use(...) on a statement with fewer placeholders has bound all 20
C21_Witness ==
  /\ Len(useArgs) = MaxArity
  /\ MaxArity > Placeholders
  /\ NoSentinel(useArgs)
  /\ Alive(stmt)
  /\ stmt.pcur = MaxArity
  /\ stmt.params[MaxArity].slot = MaxArity

\* the events, among the first k of r, by which an adapter of the given
\* nesting level came to be (ev = "ctor") or ceased to be (ev = "dtor"):
\* the adapters over arguments are the outer ones, those over the elements
\* of a vector or the members of a composite the inner ones
LifeEvents(r, k, ev, inner) ==
  { j \in 1..k : r.events[j].ev = ev /\ (r.events[j].ref[2] > 0) = inner }

\* number of adapters of that nesting level alive after the first k events
LiveAdapters(r, k, inner) ==
  Cardinality(LifeEvents(r, k, "ctor", inner)) - Cardinality(LifeEvents(r, k, "dtor", inner))

\* at most one adapter per nesting level is alive at any point of the calls
\* made on r, and none once a call has returned
AdaptersAreTemporaries(r) ==
  /\ \A k \in 1..Len(r.events), inner \in BOOLEAN : LiveAdapters(r, k, inner) \in {0, 1}
  /\ Alive(r) => \A inner \in BOOLEAN : LiveAdapters(r, Len(r.events), inner) = 0

\* C22: whenever use(...), into(...) or a bindParam / bindResult call has
\* returned, no adapter it created is alive, and during the call at most one
\* adapter per nesting level (the container's and the current element's) is.
C22_AdaptersLiveOnlyDuringBind ==
  AdaptersAreTemporaries(stmt) /\ AdaptersAreTemporaries(twin)

\* use(v) on a vector of MaxVec elements has returned: the container adapter
\* and MaxVec element adapters were constructed and destroyed
C22_Witness ==
  /\ Len(useArgs) = 1 /\ useArgs[1].type = "UVector"
  /\ Len(useArgs[1].vals) = MaxVec
  /\ Alive(stmt)
  /\ Cardinality(LifeEvents(stmt, Len(stmt.events), "ctor", TRUE)) = MaxVec
  /\ Cardinality(LifeEvents(stmt, Len(stmt.events), "dtor", TRUE)) = MaxVec
  /\ Cardinality(LifeEvents(stmt, Len(stmt.events), "dtor", FALSE)) = 1

\* the i-th argument of the one call made on stmt is a UVector<UString>
IsVecStr(i) == i \in 1..Len(CallArgs) /\ CallArgs[i].type = "UVector<UString>"

\* the adapter over the i-th argument ran bind body ev
BodyRan(r, i, ev) ==
  \E k \in 1..Len(r.events) : r.events[k].ev = ev /\ r.events[k].ref = Ref(i, 0)

\* C23: as a result target a UVector<UString> of any length, the empty one
\* included, ends in a usage error without any element or result bind; as a
\* parameter it issues one text parameter bind per element, in element
\* order, through the UStringRep adapter.
C23_StringVectorParamOnly ==
  \A i \in 1..MaxArity :
     IsVecStr(i) =>
        /\ BodyRan(stmt, i, "bindResult") =>
             /\ stmt.status = "error"
             /\ ElemBinds(stmt, i) = <<>>
             /\ \A b \in 1..Len(stmt.results) : stmt.results[b].ref[1] # i
        /\ BodyRan(stmt, i, "bindParam") =>
             /\ Alive(stmt)
             /\ ElemBinds(stmt, i) =
                  [j \in 1..Len(CallArgs[i].vals) |-> [type |-> "UStringRep", ref |-> Ref(i, j)]]
             /\ Len(CallArgs) = 1 =>
                  stmt.params = [j \in 1..Len(CallArgs[1].vals) |->
                                   [slot |-> j, kind |-> "UStringRep", val |-> CallArgs[1].vals[j]]]

\* into(v) on an empty UVector<UString> has ended in the usage error
C23_Witness ==
  /\ Len(intoArgs) = 1
  /\ intoArgs[1].type = "UVector<UString>"
  /\ intoArgs[1].vals = <<>>
  /\ BodyRan(stmt, 1, "bindResult")
  /\ stmt.status = "error"
  /\ stmt.results = <<>>

\* the parameter binds one argument stands for: itself if it is a scalar,
\* its members if it is a Person, its elements if it is a vector
ArgBinds(arg) ==
  IF IsScalar(arg) THEN << [kind |-> ParamKind(arg.type), val |-> arg.vals[1]] >>
  ELSE IF arg.type = "Person"
       THEN [j \in 1..Len(arg.vals) |-> [kind |-> PersonMembers[j].type, val |-> arg.vals[j]]]
  ELSE [j \in 1..Len(arg.vals) |-> [kind |-> arg.elem, val |-> arg.vals[j]]]

RECURSIVE FlatFrom(_, _)
\* the left-to-right flattening of the arguments from the i-th on
FlatFrom(args, i) ==
  IF i > Len(args) THEN <<>> ELSE ArgBinds(args[i]) \o FlatFrom(args, i + 1)

\* use(a, vec, b) with a and b scalars and vec a vector
ScalarVecScalar(args) ==
  /\ Len(args) = 3
  /\ IsScalar(args[1]) /\ ~IsScalar(args[2]) /\ IsScalar(args[3])
  /\ args[2].type # "Person"

\* C24: the parameter binds of use(...) are the left-to-right flattening of
\* its arguments, at consecutive slots: after use(a, vec, b) with vec of
\* length n they are a, vec[0], ..., vec[n-1], b, and b is at slot n + 2.
C24_UseFlattensLeftToRight ==
  (useArgs # <<>> /\ NoSentinel(useArgs)) =>
     /\ stmt.params = [k \in 1..Len(FlatFrom(useArgs, 1)) |->
                         [slot |-> k, kind |-> FlatFrom(useArgs, 1)[k].kind,
                          val |-> FlatFrom(useArgs, 1)[k].val]]
     /\ ScalarVecScalar(useArgs) =>
          /\ Len(stmt.params) = Len(useArgs[2].vals) + 2
          /\ stmt.params[Len(useArgs[2].vals) + 2] =
               [slot |-> Len(useArgs[2].vals) + 2, kind |-> ParamKind(useArgs[3].type),
                val |-> useArgs[3].vals[1]]

\* use(a, vec, b) with vec a vector of MaxVec ints: b is bound at slot MaxVec + 2
C24_Witness ==
  /\ ScalarVecScalar(useArgs)
  /\ useArgs[2].type = "UVector" /\ useArgs[2].elem = "int"
  /\ Len(useArgs[2].vals) = MaxVec
  /\ Alive(stmt)
  /\ stmt.params[1].val = useArgs[1].vals[1]
  /\ stmt.params[MaxVec + 1].val = useArgs[2].vals[MaxVec]
  /\ stmt.params[MaxVec + 2].val = useArgs[3].vals[1]

\* s is a prefix of t
IsPrefix(s, t) == Len(s) <= Len(t) /\ SubSeq(t, 1, Len(s)) = s

\* the step is a call of use(...), of into(...)
UseStep == useArgs = <<>> /\ useArgs' # <<>>
IntoStep == intoArgs = <<>> /\ intoArgs' # <<>>

\* the statement is neither executed nor moved to another row by the step
NoRunNoRow ==
  /\ stmt'.executed = stmt.executed
  /\ stmt'.recorded = stmt.recorded
  /\ stmt'.rows = stmt.rows
  /\ stmt'.rowIdx = stmt.rowIdx
  /\ stmt'.nextLog = stmt.nextLog

\* C25: use(...) only adds parameter bindings and leaves the result bindings,
\* the row position and the values of the variables unchanged; into(...) only
\* adds result bindings and leaves the parameter bindings unchanged; neither
\* executes the statement nor advances a row.
C25_UseAndIntoFrames ==
  [][ /\ UseStep =>
           /\ IsPrefix(stmt.params, stmt'.params)
           /\ stmt'.results = stmt.results /\ stmt'.rcur = stmt.rcur
           /\ mem' = mem
           /\ NoRunNoRow
      /\ IntoStep =>
           /\ IsPrefix(stmt.results, stmt'.results)
           /\ stmt'.params = stmt.params /\ stmt'.pcur = stmt.pcur
           /\ NoRunNoRow ]_vars

\* into(...) then use(...), or use(...) then into(...), each having bound
\* something, on a statement that is still not executed
C25_Witness ==
  /\ useArgs # <<>> /\ intoArgs # <<>>
  /\ Alive(stmt)
  /\ stmt.params # <<>> /\ stmt.results # <<>>
  /\ ~stmt.executed /\ stmt.rowIdx = 0

\* the bind calls a statement has received: the adapters' bindParam and
\* bindResult calls in order, and the primitives they reached
BindCalls(r) ==
  [ calls   |-> SelectSeq(r.events, LAMBDA e : e.ev \in {"bindParam", "bindResult"}),
    params  |-> r.params,
    results |-> r.results ]

\* C26: the fold forms of use(...) and into(...) and the fixed-arity forms,
\* called on the same list of 1 to 20 arguments, issue the same bind calls
\* in the same order.
C26_FoldMatchesFixed ==
  (twinPos > 0 /\ lvalues) => BindCalls(stmt) = BindCalls(twin)

\* use(x) on an int variable x: the fixed-arity form binds it, the fold form
\* is rejected by the compiler
C26_LvalueRejected ==
  /\ twinPos = 1 /\ lvalues
  /\ useArgs = <<ScalarArg("int", 1)>>
  /\ stmt.status = "illformed" /\ stmt.params = <<>>
  /\ Alive(twin) /\ Len(twin.params) = 1

\* the i-th argument of the one call made on stmt is a UVector<UStringRep*>
IsVecOfRep(i) == IsVec(i) /\ CallArgs[i].elem = "UStringRep"

\* the adapter over the i-th argument was destroyed, its bind having returned
Returned(r, i) ==
  \E k \in 1..Len(r.events) : r.events[k].ev = "dtor" /\ r.events[k].ref = Ref(i, 0)

\* no result bind was issued on behalf of the i-th argument
NoResultFor(r, i) == \A b \in 1..Len(r.results) : r.results[b].ref[1] # i

\* C27: bindResult of the sequence adapter over a UVector<UStringRep*> ends
\* in the UStringRep usage error at its first element, before any result
\* bind, when the vector is non-empty; over an empty vector it returns
\* normally and has bound nothing.
C27_RepVectorResult ==
  \A i \in 1..MaxArity :
     (IsVecOfRep(i) /\ BodyRan(stmt, i, "bindResult")) =>
        /\ NoResultFor(stmt, i)
        /\ CallArgs[i].vals # <<>> =>
             /\ stmt.status = "error"
             /\ ElemBinds(stmt, i) = << [type |-> "UStringRep", ref |-> Ref(i, 1)] >>
             /\ ~Returned(stmt, i)
        /\ CallArgs[i].vals = <<>> =>
             /\ Returned(stmt, i)
             /\ ElemBinds(stmt, i) = <<>>
             /\ Len(CallArgs) = 1 => (Alive(stmt) /\ stmt.results = <<>>)

\* into(v) on a UVector<UStringRep*> of MaxVec elements stopped at v[0]
C27_Witness ==
  /\ Len(intoArgs) = 1 /\ IsVecOfRep(1)
  /\ Len(intoArgs[1].vals) = MaxVec
  /\ stmt.status = "error"
  /\ stmt.results = <<>>
  /\ Len(ElemBinds(stmt, 1)) = 1

\* into(v) on an empty UVector<UStringRep*> returned without a bind
C27_EmptyReached ==
  /\ Len(intoArgs) = 1 /\ IsVecOfRep(1)
  /\ intoArgs[1].vals = <<>>
  /\ Alive(stmt) /\ Returned(stmt, 1)

====
